---- MODULE Spec2Model ----
(***************************************************************************)
(* Model of scripts/data_transformation.py: the numeric cleaner, the      *)
(* categorizer, the health scorer, the tier mapping, the two processing   *)
(* functions, the reporter and main.                                      *)
(*                                                                         *)
(* Numbers.  A float is modelled as an extended rational [n, d]:          *)
(*   d > 0        the finite value n/d in lowest terms,                   *)
(*   n = 1, d = 0   +inf;   n = -1, d = 0   -inf;   n = 0, d = 0   NaN.    *)
(* Arithmetic is exact (binary rounding and the sign of zero are not      *)
(* modelled); the IEEE special values and their comparison rules are.     *)
(*                                                                         *)
(* Strings are TLA+ strings, read character by character with SubSeq.     *)
(***************************************************************************)
EXTENDS Integers, Sequences, FiniteSets, TLC

VARIABLES fs, console, exc, ret, call

vars == <<fs, console, exc, ret, call>>

----------------------------------------------------------------------------
(* Bounds of the model. *)

\* longest generated raw cell string handed to clean_european_number
MaxLen == 3
\* most fragments concatenated into a product name
MaxWords == 2
\* probes lie within Delta half-units of each threshold of the scorer
Delta == 1
\* tier probes run from -Margin to 100 + Margin
Margin == 3
\* most rows of a raw SKU export
MaxRows == 2
\* most rows of a raw daily export
MaxDays == 2

----------------------------------------------------------------------------
(* Floats. *)

AbsInt(i) == IF i < 0 THEN -i ELSE i

SignInt(i) == IF i > 0 THEN 1 ELSE IF i < 0 THEN -1 ELSE 0

RECURSIVE GCD(_, _)
GCD(a, b) == IF b = 0 THEN a ELSE GCD(b, a % b)

\* the finite float n/d, d > 0
Rat(n, d) == LET g == GCD(AbsInt(n), d) IN [n |-> n \div g, d |-> d \div g]

NaN == [n |-> 0, d |-> 0]

Inf(s) == [n |-> s, d |-> 0]

Zero == Rat(0, 1)

IsNaN(x) == x.n = 0 /\ x.d = 0

IsFinite(x) == x.d > 0

\* a > b; any comparison with NaN is False
Gt(a, b) ==
    /\ ~IsNaN(a)
    /\ ~IsNaN(b)
    /\ IF a.d = 0 /\ b.d = 0 THEN a.n > b.n ELSE a.n * b.d > b.n * a.d

Lt(a, b) == Gt(b, a)

\* a == b
Eq(a, b) == ~IsNaN(a) /\ ~IsNaN(b) /\ a = b

Ge(a, b) == Gt(a, b) \/ Eq(a, b)

\* a / b on float arrays: x/0 is +-inf, 0/0 is NaN, no exception
FDiv(a, b) ==
    IF IsNaN(a) \/ IsNaN(b) THEN NaN
    ELSE IF a.d = 0
         THEN IF b.d = 0 THEN NaN ELSE Inf(a.n * (IF b.n < 0 THEN -1 ELSE 1))
    ELSE IF b.d = 0 THEN Zero
    ELSE IF b.n = 0 THEN (IF a.n = 0 THEN NaN ELSE Inf(SignInt(a.n)))
    ELSE Rat(a.n * b.d * SignInt(b.n), a.d * AbsInt(b.n))

\* a * b
FMul(a, b) ==
    IF IsNaN(a) \/ IsNaN(b) THEN NaN
    ELSE IF a.d = 0 \/ b.d = 0
         THEN IF a.n = 0 \/ b.n = 0 THEN NaN ELSE Inf(SignInt(a.n) * SignInt(b.n))
    ELSE Rat(a.n * b.n, a.d * b.d)

\* a + b
FAdd(a, b) ==
    IF IsNaN(a) \/ IsNaN(b) THEN NaN
    ELSE IF a.d = 0 /\ b.d = 0 THEN (IF a.n = b.n THEN a ELSE NaN)
    ELSE IF a.d = 0 THEN a
    ELSE IF b.d = 0 THEN b
    ELSE Rat(a.n * b.d + b.n * a.d, a.d * b.d)

\* Series.abs()
FAbs(a) == [n |-> AbsInt(a.n), d |-> a.d]

Hundred == Rat(100, 1)

----------------------------------------------------------------------------
(* Raw cells.  A cell read from a CSV is missing, a number or a string. *)

Missing == [t |-> "na"]

NumCell(v) == [t |-> "num", v |-> v]

StrCell(s) == [t |-> "str", s |-> s]

\* pd.isna(value)
isna(value) == value.t = "na" \/ (value.t = "num" /\ IsNaN(value.v))

UpperAlpha == "ABCDEFGHIJKLMNOPQRSTUVWXYZ"

LowerAlpha == "abcdefghijklmnopqrstuvwxyz"

\* str.lower()
RECURSIVE lower(_)
lower(s) ==
    IF s = "" THEN ""
    ELSE LET c  == SubSeq(s, 1, 1)
             up == {i \in 1..Len(UpperAlpha) : SubSeq(UpperAlpha, i, i) = c}
         IN (IF up = {} THEN c
             ELSE LET i == CHOOSE j \in up : TRUE IN SubSeq(LowerAlpha, i, i))
            \o lower(SubSeq(s, 2, Len(s)))

Digits == "0123456789"

IsDigit(c) == \E i \in 1..Len(Digits) : SubSeq(Digits, i, i) = c

DigitVal(c) == (CHOOSE i \in 1..Len(Digits) : SubSeq(Digits, i, i) = c) - 1

\* str.replace(old, new) for a one-character old
RECURSIVE replace(_, _, _)
replace(s, old, new) ==
    IF s = "" THEN ""
    ELSE LET c == SubSeq(s, 1, 1)
         IN (IF c = old THEN new ELSE c) \o replace(SubSeq(s, 2, Len(s)), old, new)

AllDigits(s) == \A i \in 1..Len(s) : IsDigit(SubSeq(s, i, i))

RECURSIVE DigitsVal(_)
DigitsVal(s) ==
    IF s = "" THEN 0
    ELSE 10 * DigitsVal(SubSeq(s, 1, Len(s) - 1)) + DigitVal(SubSeq(s, Len(s), Len(s)))

RECURSIVE Pow10(_)
Pow10(k) == IF k = 0 THEN 1 ELSE 10 * Pow10(k - 1)

\* float(str) on the grammar [sign] (digits [. digits] | . digits | inf |
\* infinity | nan), letters in either case; exponents and digit-group
\* underscores are not modelled.  The result is a value or ValueError.
float(s) ==
    LET signed == s # "" /\ SubSeq(s, 1, 1) \in {"-", "+"}
        sgn    == IF signed /\ SubSeq(s, 1, 1) = "-" THEN -1 ELSE 1
        body   == IF signed THEN SubSeq(s, 2, Len(s)) ELSE s
        dots   == {i \in 1..Len(body) : SubSeq(body, i, i) = "."}
        dot    == IF dots = {} THEN Len(body) + 1 ELSE CHOOSE i \in dots : TRUE
        ip     == SubSeq(body, 1, dot - 1)
        fp     == SubSeq(body, dot + 1, Len(body))
        ok     == /\ Cardinality(dots) <= 1
                  /\ AllDigits(ip)
                  /\ AllDigits(fp)
                  /\ Len(ip) + Len(fp) > 0
    IN IF lower(body) = "nan" THEN [exc |-> "none", val |-> NaN]
       ELSE IF lower(body) \in {"inf", "infinity"} THEN [exc |-> "none", val |-> Inf(sgn)]
       ELSE IF ok
       THEN [exc |-> "none",
             val |-> Rat(sgn * (DigitsVal(ip) * Pow10(Len(fp)) + DigitsVal(fp)),
                         Pow10(Len(fp)))]
       ELSE [exc |-> "ValueError", val |-> NaN]

\* the body of the try block, without the handler
clean_european_number_try(value) ==
    IF isna(value) THEN [exc |-> "none", val |-> Zero]
    ELSE IF value.t = "num" THEN [exc |-> "none", val |-> value.v]
    ELSE float(replace(replace(value.s, " ", ""), ",", "."))

\* faulty variant: the except clause is missing
clean_european_number_nohandler(value) == clean_european_number_try(value)

clean_european_number(value) ==
    LET r == clean_european_number_try(value)
    IN IF r.exc = "ValueError" THEN [exc |-> "none", val |-> Zero] ELSE r

----------------------------------------------------------------------------
(* Categorizer. *)

\* kw in s
Contains(kw, s) ==
    \E i \in 1..(Len(s) - Len(kw) + 1) : SubSeq(s, i, i + Len(kw) - 1) = kw

\* the dict literal, in insertion order
category_keywords == <<
    [category |-> "Electronics & Home",
     keywords |-> <<"electronic", "cable", "charger", "adapter", "battery",
                    "home", "kitchen", "appliance", "tool">>],
    [category |-> "Fragrances",
     keywords |-> <<"perfume", "cologne", "fragrance", "scent", "eau de">>],
    [category |-> "Beauty & Skincare",
     keywords |-> <<"beauty", "skincare", "cream", "lotion", "makeup",
                    "cosmetic", "serum", "face">>],
    [category |-> "Consumables & Health",
     keywords |-> <<"vitamin", "supplement", "health", "protein",
                    "snack", "food", "drink", "consumable">>],
    [category |-> "Collectibles & Toys",
     keywords |-> <<"toy", "collectible", "figure", "game", "puzzle", "lego">>],
    [category |-> "Apparel & Footwear",
     keywords |-> <<"shirt", "pants", "shoes", "clothing", "apparel",
                    "jacket", "dress", "footwear">>],
    [category |-> "Drinkware",
     keywords |-> <<"mug", "cup", "bottle", "tumbler", "glass", "drinkware">>],
    [category |-> "Sports",
     keywords |-> <<"sport", "fitness", "exercise", "gym", "outdoor", "athletic">>],
    [category |-> "Media & Entertainment",
     keywords |-> <<"book", "dvd", "cd", "media", "movie", "music">>] >>

\* any(kw in name_lower for kw in keywords)
AnyKeyword(keywords, name_lower) ==
    \E k \in 1..Len(keywords) : Contains(keywords[k], name_lower)

\* the for loop over category_keywords.items(), from entry i on
RECURSIVE category_loop(_, _)
category_loop(name_lower, i) ==
    IF i > Len(category_keywords) THEN "Other"
    ELSE IF AnyKeyword(category_keywords[i].keywords, name_lower)
         THEN category_keywords[i].category
    ELSE category_loop(name_lower, i + 1)

\* faulty variant: the name is searched without lower-casing it
assign_category_nolower(product_name) == category_loop(product_name, 1)

assign_category(product_name) == category_loop(lower(product_name), 1)

----------------------------------------------------------------------------
(* Health scorer and tier mapping. *)

Min(a, b) == IF a < b THEN a ELSE b

Max(a, b) == IF a > b THEN a ELSE b

\* row.get(key, default)
Get(row, key, default) == IF key \in DOMAIN row THEN row[key] ELSE default

N(i) == Rat(i, 1)

profit_adjust(net_profit) ==
    IF Gt(net_profit, N(500)) THEN 20
    ELSE IF Gt(net_profit, N(200)) THEN 15
    ELSE IF Gt(net_profit, N(100)) THEN 10
    ELSE IF Gt(net_profit, N(50)) THEN 5
    ELSE IF Lt(net_profit, N(0)) THEN -15
    ELSE 0

velocity_adjust(units) ==
    IF Gt(units, N(50)) THEN 15
    ELSE IF Gt(units, N(25)) THEN 10
    ELSE IF Gt(units, N(10)) THEN 5
    ELSE IF Eq(units, N(0)) THEN -10
    ELSE 0

roi_adjust(roi) ==
    IF Gt(roi, N(50)) THEN 10
    ELSE IF Gt(roi, N(25)) THEN 5
    ELSE IF Lt(roi, N(0)) THEN -10
    ELSE 0

\* faulty variant: the margin step is 10 instead of 5
margin_adjust_wide(margin) ==
    IF Gt(margin, N(20)) THEN 10
    ELSE IF Lt(margin, N(5)) THEN -10
    ELSE 0

margin_adjust(margin) ==
    IF Gt(margin, N(20)) THEN 5
    ELSE IF Lt(margin, N(5)) THEN -5
    ELSE 0

BaseScore == 50

\* the local variable score just before the return statement
health_score_sum(row) ==
    BaseScore
    + profit_adjust(Get(row, "Net_Profit", Zero))
    + velocity_adjust(Get(row, "Units_Sold", Zero))
    + roi_adjust(Get(row, "ROI_Pct", Zero))
    + margin_adjust(Get(row, "Margin_Pct", Zero))

\* faulty variant: the profit adjustment is added a second time and the sum is
\* returned without the clamp
calculate_health_score_unclamped(row) ==
    health_score_sum(row) + profit_adjust(Get(row, "Net_Profit", Zero))

calculate_health_score(row) == Max(0, Min(100, health_score_sum(row)))

\* faulty variant: the boundaries are compared with > instead of >=
assign_performance_tier_strict(health_score) ==
    IF Gt(health_score, N(80)) THEN "Star"
    ELSE IF Gt(health_score, N(60)) THEN "Strong"
    ELSE IF Gt(health_score, N(45)) THEN "Average"
    ELSE "Weak"

assign_performance_tier(health_score) ==
    IF Ge(health_score, N(80)) THEN "Star"
    ELSE IF Ge(health_score, N(60)) THEN "Strong"
    ELSE IF Ge(health_score, N(45)) THEN "Average"
    ELSE "Weak"

----------------------------------------------------------------------------
(* Tables.  A table (DataFrame) is a sequence of rows, a row a function    *)
(* from column names to values.  A column that the cleaner reads holds raw *)
(* cells, every other numeric column holds floats (a missing cell is NaN), *)
(* a text column holds strings.                                            *)

\* np.where(cond, x, y), element-wise; both x and y are evaluated
np_where(cond, x, y) == IF cond THEN x ELSE y

\* faulty variant: the margin is computed without the guard on Revenue
Margin_Pct_unguarded(row) == FMul(FDiv(row["Net_Profit"], row["Revenue"]), Hundred)

Margin_Pct(row) ==
    np_where(Gt(row["Revenue"], Zero),
             FMul(FDiv(row["Net_Profit"], row["Revenue"]), Hundred),
             Zero)

\* faulty variant: the guard and the denominator use COGS itself, not its absolute value
ROI_Pct_signed(row) ==
    np_where(Gt(row["COGS"], Zero),
             FMul(FDiv(row["Net_Profit"], row["COGS"]), Hundred),
             Zero)

ROI_Pct(row) ==
    np_where(Gt(FAbs(row["COGS"]), Zero),
             FMul(FDiv(row["Net_Profit"], FAbs(row["COGS"])), Hundred),
             Zero)

Refund_Rate_Pct(row) ==
    np_where(Gt(row["Units_Sold"], Zero),
             FMul(FDiv(row["Refunds"], row["Units_Sold"]), Hundred),
             Zero)

Avg_Sale_Price(row) ==
    np_where(Gt(row["Units_Sold"], Zero),
             FDiv(row["Revenue"], row["Units_Sold"]),
             Zero)

Profit_Per_Unit(row) ==
    np_where(Gt(row["Units_Sold"], Zero),
             FDiv(row["Net_Profit"], row["Units_Sold"]),
             Zero)

Conversion_Rate_Pct(row) ==
    np_where(Gt(row["Sessions"], Zero),
             FMul(FDiv(row["Orders"], row["Sessions"]), Hundred),
             Zero)

MapRows(Op(_), df) == [i \in 1..Len(df) |-> Op(df[i])]

numeric_cols == {"Revenue", "COGS", "Amazon_Fees", "Net_Profit"}

\* df[col] = df[col].apply(clean_european_number) for the columns present
sku_clean_row(row) ==
    [c \in DOMAIN row |->
        IF c \in numeric_cols THEN clean_european_number(row[c]).val ELSE row[c]]

\* the five derived metrics
sku_derive_row(row) ==
    [Margin_Pct      |-> Margin_Pct(row),
     ROI_Pct         |-> ROI_Pct(row),
     Refund_Rate_Pct |-> Refund_Rate_Pct(row),
     Avg_Sale_Price  |-> Avg_Sale_Price(row),
     Profit_Per_Unit |-> Profit_Per_Unit(row)] @@ row

\* df['Health_Score'] = df.apply(calculate_health_score, axis=1)
sku_score_row(row) == [Health_Score |-> N(calculate_health_score(row))] @@ row

\* df['Performance_Tier'] = df['Health_Score'].apply(assign_performance_tier)
sku_tier_row(row) ==
    [Performance_Tier |-> assign_performance_tier(row["Health_Score"])] @@ row

\* str(i) for i >= 0
RECURSIVE str(_)
str(i) ==
    IF i < 10 THEN SubSeq(Digits, i + 1, i + 1)
    ELSE str(i \div 10) \o SubSeq(Digits, (i % 10) + 1, (i % 10) + 1)

RECURSIVE zfill(_, _)
zfill(s, width) == IF Len(s) >= width THEN s ELSE zfill("0" \o s, width)

\* df['SKU'] = [f'SKU-{str(i+1).zfill(4)}' for i in range(len(df))]
sku_anonymize(df) ==
    [i \in 1..Len(df) |-> [SKU |-> "SKU-" \o zfill(str(i), 4)] @@ df[i]]

\* faulty variant: the rows are scored before the ratios are derived
process_sku_rows_score_first(df) ==
    sku_anonymize(
        MapRows(sku_derive_row,
            MapRows(sku_tier_row,
                MapRows(sku_score_row,
                    MapRows(sku_clean_row, df)))))

\* the table process_sku_data builds from the table it read
process_sku_rows(df) ==
    sku_anonymize(
        MapRows(sku_tier_row,
            MapRows(sku_score_row,
                MapRows(sku_derive_row,
                    MapRows(sku_clean_row, df)))))

\* an operation's effect: the files after it, the lines it printed, the
\* exception it let propagate and the value it returned
Outcome(files, lines, raised, value) ==
    [fs |-> files, console |-> lines, exc |-> raised, ret |-> value]

NoReturn == [t |-> "none"]

ReturnNone == [t |-> "None"]

ReturnDf(df) == [t |-> "df", df |-> df]

Line(fn, msg, data) == [fn |-> fn, msg |-> msg, data |-> data]

\* faulty variant: a missing input is reported on the console and None is returned
process_sku_data_reporting(files, input_path, output_path) ==
    LET start == Line("process_sku_data", "Processing SKU data from", <<input_path>>)
    IN IF input_path \notin DOMAIN files
       THEN Outcome(files,
                    <<start, Line("process_sku_data", "not found", <<input_path>>)>>,
                    "none", ReturnNone)
       ELSE LET df == process_sku_rows(files[input_path])
            IN Outcome((output_path :> df) @@ files,
                       <<start, Line("process_sku_data", "Saved SKUs to",
                                     <<Len(df), output_path>>)>>,
                       "none", ReturnDf(df))

process_sku_data(files, input_path, output_path) ==
    LET start == Line("process_sku_data", "Processing SKU data from", <<input_path>>)
    IN IF input_path \notin DOMAIN files
       THEN \* pd.read_csv raises; nothing after it runs
            Outcome(files, <<start>>, "FileNotFoundError", NoReturn)
       ELSE LET df == process_sku_rows(files[input_path])
            IN Outcome((output_path :> df) @@ files,
                       <<start, Line("process_sku_data", "Saved SKUs to",
                                     <<Len(df), output_path>>)>>,
                       "none", ReturnDf(df))

----------------------------------------------------------------------------
(* Daily metrics. *)

\* pd.to_datetime on an ISO date YYYY-MM-DD
to_datetime(s) ==
    [y |-> DigitsVal(SubSeq(s, 1, 4)),
     m |-> DigitsVal(SubSeq(s, 6, 7)),
     d |-> DigitsVal(SubSeq(s, 9, 10))]

\* the order of Timestamps
DateKey(t) == t.y * 10000 + t.m * 100 + t.d

IsLeap(y) == (y % 4 = 0 /\ y % 100 # 0) \/ y % 400 = 0

\* 0 = Sunday .. 6 = Saturday
Weekday(t) ==
    LET shift == <<0, 3, 2, 5, 0, 3, 5, 1, 4, 6, 2, 4>>
        y     == IF t.m < 3 THEN t.y - 1 ELSE t.y
    IN (y + y \div 4 - y \div 100 + y \div 400 + shift[t.m] + t.d) % 7

\* Series.dt.day_name()
day_name(t) ==
    <<"Sunday", "Monday", "Tuesday", "Wednesday", "Thursday", "Friday",
      "Saturday">>[Weekday(t) + 1]

DayOfYear(t) ==
    LET before == <<0, 31, 59, 90, 120, 151, 181, 212, 243, 273, 304, 334>>
    IN before[t.m] + t.d + (IF t.m > 2 /\ IsLeap(t.y) THEN 1 ELSE 0)

WeeksInYear(y) ==
    LET P(x) == (x + x \div 4 - x \div 100 + x \div 400) % 7
    IN IF P(y) = 4 \/ P(y - 1) = 3 THEN 53 ELSE 52

\* Series.dt.isocalendar().week
iso_week(t) ==
    LET wd == IF Weekday(t) = 0 THEN 7 ELSE Weekday(t)
        w  == (DayOfYear(t) - wd + 10) \div 7
    IN IF w < 1 THEN WeeksInYear(t.y - 1)
       ELSE IF w > WeeksInYear(t.y) THEN 1
       ELSE w

Window == 7

MinPeriods == 1

\* the sum of the non-NaN values of col in rows lo..hi
RECURSIVE WindowSum(_, _, _, _)
WindowSum(df, col, lo, hi) ==
    IF lo > hi THEN Zero
    ELSE LET v == df[hi][col]
         IN FAdd(WindowSum(df, col, lo, hi - 1), IF IsNaN(v) THEN Zero ELSE v)

WindowCount(df, col, lo, hi) == Cardinality({j \in lo..hi : ~IsNaN(df[j][col])})

\* df[col].rolling(window=7, min_periods=1).mean() at row i
rolling_mean(df, col, i) ==
    LET lo == Max(1, i - Window + 1)
        k  == WindowCount(df, col, lo, i)
    IN IF k < MinPeriods THEN NaN ELSE FDiv(WindowSum(df, col, lo, i), N(k))

\* the row orders df.sort_values('Date') may produce: the sort is not stable,
\* so rows with equal dates come in any order
SortOrders(df) ==
    {p \in [1..Len(df) -> 1..Len(df)] :
        /\ \A i, j \in 1..Len(df) : i # j => p[i] # p[j]
        /\ \A i, j \in 1..Len(df) : i < j => DateKey(df[p[i]]["Date"]) <= DateKey(df[p[j]]["Date"])}

daily_parse_row(row) == [Date |-> to_datetime(row["Date"])] @@ row

\* the table process_daily_data builds, the sort having picked order
process_daily_rows(raw, order) ==
    LET parsed == MapRows(daily_parse_row, raw)
        df     == [i \in 1..Len(parsed) |-> parsed[order[i]]]
    IN [i \in 1..Len(df) |->
           [Profit_7day_MA      |-> rolling_mean(df, "Net_Profit", i),
            Units_7day_MA       |-> rolling_mean(df, "Units_Sold", i),
            Revenue_7day_MA     |-> rolling_mean(df, "Revenue", i),
            Day_of_Week         |-> day_name(df[i]["Date"]),
            Week_Number         |-> iso_week(df[i]["Date"]),
            Conversion_Rate_Pct |-> Conversion_Rate_Pct(df[i]),
            Margin_Pct          |-> Margin_Pct(df[i])] @@ df[i]]

\* order is read only when the input exists
process_daily_data(files, input_path, output_path, order) ==
    LET start == Line("process_daily_data", "Processing daily data from", <<input_path>>)
    IN IF input_path \notin DOMAIN files
       THEN \* pd.read_csv raises; nothing after it runs
            Outcome(files, <<start>>, "FileNotFoundError", NoReturn)
       ELSE LET df == process_daily_rows(files[input_path], order)
            IN Outcome((output_path :> df) @@ files,
                       <<start, Line("process_daily_data", "Saved daily records to",
                                     <<Len(df), output_path>>)>>,
                       "none", ReturnDf(df))

----------------------------------------------------------------------------
(* Reporter and main. *)

\* Series.sum(), which skips NaN
ColumnSum(df, col) == WindowSum(df, col, 1, Len(df))

Tiers == <<"Star", "Strong", "Average", "Weak">>

\* the category lines; rows of equal profit are printed in either order, so
\* the lines are kept as a set
CategoryLines(sku_df, total_profit) ==
    {LET rows == {i \in 1..Len(sku_df) : sku_df[i]["Category"] = cat}
         sum  == ColumnSum([i \in 1..Len(sku_df) |->
                               IF i \in rows THEN sku_df[i]
                               ELSE [Net_Profit |-> Zero]], "Net_Profit")
     IN <<cat, sum, FMul(FDiv(sum, total_profit), Hundred), Cardinality(rows)>> :
     cat \in {sku_df[i]["Category"] : i \in 1..Len(sku_df)}}

\* the tier lines, in the fixed order, for the tiers that occur
RECURSIVE TierLines(_, _)
TierLines(sku_df, t) ==
    IF t > Len(Tiers) THEN <<>>
    ELSE LET count == Cardinality({i \in 1..Len(sku_df) :
                                      sku_df[i]["Performance_Tier"] = Tiers[t]})
         IN (IF count > 0
             THEN <<Line("generate_summary_stats", "tier",
                         <<Tiers[t], count,
                           FMul(FDiv(N(count), N(Len(sku_df))), Hundred)>>)>>
             ELSE <<>>)
            \o TierLines(sku_df, t + 1)

\* the lines printed and the exception raised
generate_summary_stats(sku_df, daily_df) ==
    LET total_profit  == ColumnSum(sku_df, "Net_Profit")
        total_units   == ColumnSum(sku_df, "Units_Sold")
        total_revenue == ColumnSum(sku_df, "Revenue")
        avg_margin    == IF total_revenue # Zero
                         THEN FMul(FDiv(total_profit, total_revenue), Hundred)
                         ELSE Zero
        metrics ==
            <<Line("generate_summary_stats", "SUMMARY STATISTICS", <<>>),
              Line("generate_summary_stats", "Total Net Profit", <<total_profit>>),
              Line("generate_summary_stats", "Total Units Sold", <<total_units>>),
              Line("generate_summary_stats", "Total Revenue", <<total_revenue>>),
              Line("generate_summary_stats", "Average Margin", <<avg_margin>>),
              Line("generate_summary_stats", "Active SKUs", <<Len(sku_df)>>),
              Line("generate_summary_stats", "Avg Daily Profit",
                   <<FDiv(total_profit, N(Len(daily_df)))>>),
              Line("generate_summary_stats", "Category Performance:", <<>>)>>
    IN IF \E i \in 1..Len(sku_df) : "Category" \notin DOMAIN sku_df[i]
       THEN \* sku_df.groupby('Category') on a table without that column
            [console |-> metrics, exc |-> "KeyError"]
       ELSE [console |->
                metrics
                \o <<Line("generate_summary_stats", "categories",
                          CategoryLines(sku_df, total_profit)),
                     Line("generate_summary_stats", "Performance Tier Distribution:", <<>>)>>
                \o TierLines(sku_df, 1),
             exc |-> "none"]

sku_output == "data/tableau_sku_data.csv"

daily_output == "data/tableau_daily_data.csv"

raw_sku == "data/raw_sku_data.csv"

raw_daily == "data/raw_daily_data.csv"

main(files) ==
    IF sku_output \in DOMAIN files /\ daily_output \in DOMAIN files
    THEN LET r == generate_summary_stats(files[sku_output], files[daily_output])
         IN Outcome(files,
                    <<Line("main", "Processed data files already exist.", <<>>),
                      Line("main", "Loading existing files for summary...", <<>>)>>
                    \o r.console,
                    r.exc, IF r.exc = "none" THEN ReturnNone ELSE NoReturn)
    ELSE Outcome(files,
                 <<Line("main", "Raw data files not found. Please place Sellerboard exports in data/ directory.", <<>>),
                   Line("main", "Expected files: raw_sku_data.csv, raw_daily_data.csv", <<>>)>>,
                 "none", ReturnNone)

----------------------------------------------------------------------------
(* The pipeline: the raw exports that may lie in data/, and a caller that *)
(* runs the three operations in any order, any number of times.           *)
(* console, exc and ret hold the lines printed, the exception propagated  *)
(* and the value returned by the operation that ran last.                 *)

\* rows of a raw SKU export; Product_Name stands for the export's name column,
\* which the script never reads
RawSkuRows ==
    {[Product_Name |-> "USB Charger Cable", SKU |-> "B00A1",
      Revenue |-> StrCell("1 000,50"), COGS |-> StrCell("-400"),
      Amazon_Fees |-> StrCell("-150,25"), Net_Profit |-> StrCell("450,25"),
      Units_Sold |-> N(60), Refunds |-> N(3)],
     [Product_Name |-> "Glass Mug", SKU |-> "B00A3",
      Revenue |-> NumCell(N(-50)), COGS |-> NumCell(N(250)),
      Amazon_Fees |-> Missing, Net_Profit |-> NumCell(N(-75)),
      Units_Sold |-> N(-1), Refunds |-> N(1)],
     [Product_Name |-> "nan", SKU |-> "B00A4",
      Revenue |-> Missing, COGS |-> StrCell("NaN"),
      Amazon_Fees |-> StrCell("n/a"), Net_Profit |-> StrCell("12,5"),
      Units_Sold |-> NaN, Refunds |-> NaN],
     [Product_Name |-> "DVD Box", SKU |-> "B00A8",
      Revenue |-> NumCell(N(0)), COGS |-> NumCell(N(0)),
      Amazon_Fees |-> NumCell(N(0)), Net_Profit |-> NumCell(N(-10)),
      Units_Sold |-> N(0), Refunds |-> N(1)]}

\* rows of a raw daily export
RawDailyRows ==
    {[Date |-> "2025-04-07", Net_Profit |-> N(50), Units_Sold |-> N(5),
      Revenue |-> N(200), Sessions |-> N(40), Orders |-> N(4)],
     [Date |-> "2025-04-07", Net_Profit |-> N(30), Units_Sold |-> NaN,
      Revenue |-> N(-20), Sessions |-> N(0), Orders |-> N(1)],
     [Date |-> "2024-12-30", Net_Profit |-> N(12), Units_Sold |-> N(2),
      Revenue |-> N(0), Sessions |-> N(-5), Orders |-> N(2)]}

\* the tables of 1..k rows drawn from rows
TablesOf(rows, k) == UNION {[1..n -> rows] : n \in 1..k}

\* the same table without the optional Amazon_Fees column
WithoutFees(df) ==
    [i \in 1..Len(df) |-> [c \in DOMAIN df[i] \ {"Amazon_Fees"} |-> df[i][c]]]

RawSkuTables ==
    TablesOf(RawSkuRows, MaxRows)
    \cup {WithoutFees(df) : df \in TablesOf(RawSkuRows, 1)}

RawDailyTables == TablesOf(RawDailyRows, MaxDays)

NoFiles == [p \in {} |-> <<>>]

NoCall == [fn |-> "none", st |-> "none"]

Init ==
    /\ fs \in {sku @@ daily :
                  sku \in {NoFiles} \cup {raw_sku :> df : df \in RawSkuTables},
                  daily \in {NoFiles} \cup {raw_daily :> df : df \in RawDailyTables}}
    /\ console = <<>>
    /\ exc = "none"
    /\ ret = NoReturn
    /\ call = NoCall

\* process_sku_data(data/raw_sku_data.csv, data/tableau_sku_data.csv)
ProcessSku ==
    \E r \in {process_sku_data(fs, raw_sku, sku_output)} :
        /\ fs' = r.fs
        /\ console' = r.console
        /\ exc' = r.exc
        /\ ret' = r.ret
        /\ UNCHANGED call

\* process_daily_data(data/raw_daily_data.csv, data/tableau_daily_data.csv)
ProcessDaily ==
    \E order \in (IF raw_daily \in DOMAIN fs
                  THEN SortOrders(MapRows(daily_parse_row, fs[raw_daily]))
                  ELSE {<<>>}) :
        \E r \in {process_daily_data(fs, raw_daily, daily_output, order)} :
            /\ fs' = r.fs
            /\ console' = r.console
            /\ exc' = r.exc
            /\ ret' = r.ret
            /\ UNCHANGED call

Main ==
    \E r \in {main(fs)} :
        /\ fs' = r.fs
        /\ console' = r.console
        /\ exc' = r.exc
        /\ ret' = r.ret
        /\ UNCHANGED call

Next == ProcessSku \/ ProcessDaily \/ Main

Spec == Init /\ [][Next]_vars

----------------------------------------------------------------------------
(* Inputs of the unit calls. *)

CleanAlphabet == {"5", "1", " ", ",", ".", "-", "x"}

RECURSIVE StringsOfLen(_)
StringsOfLen(k) ==
    IF k = 0 THEN {""}
    ELSE {s \o c : s \in StringsOfLen(k - 1), c \in CleanAlphabet}

SampleStrings ==
    {"5 191,16", "1.234,56", "1 000", "-12,5", "+7", "abc", "1,2,3", "NaN", "-Infinity"}

SampleNumbers == {Rat(0, 1), Rat(5, 1), Rat(-7, 2), Rat(519116, 100)}

RawCells ==
    {Missing, NumCell(NaN)}
    \cup {NumCell(v) : v \in SampleNumbers}
    \cup {StrCell(s) : s \in SampleStrings}
    \cup UNION {{StrCell(s) : s \in StringsOfLen(k)} : k \in 0..MaxLen}

Fragments ==
    {"USB", " ", "Charger", "Cable", "CD", "cup", "s", "tool", "Drinkware",
     "Mug", "sur", "face", "eau", "de", "xyz", "to", "y"}

RECURSIVE NamesOfWords(_)
NamesOfWords(k) ==
    IF k = 0 THEN {""}
    ELSE {s \o f : s \in NamesOfWords(k - 1), f \in Fragments}

ProductNames ==
    {"USB Charger Cable", "nan"} \cup UNION {NamesOfWords(k) : k \in 0..MaxWords}

\* the values within Delta half-units of the thresholds ts
Near(ts) == {Rat(2 * t + k, 2) : t \in ts, k \in (-Delta)..Delta}

\* marks a field the row does not have
Absent == [n |-> 0, d |-> -1]

ProfitProbes == Near({0, 50, 100, 200, 500}) \cup {Absent}

UnitsProbes == Near({0, 10, 25, 50}) \cup {Absent}

RoiProbes == Near({0, 25, 50}) \cup {Absent}

MarginProbes == Near({5, 20}) \cup {Absent}

ScoreRow(p, u, r, m) ==
    LET v == [k \in {"Net_Profit", "Units_Sold", "ROI_Pct", "Margin_Pct"} |->
                 CASE k = "Net_Profit" -> p
                   [] k = "Units_Sold" -> u
                   [] k = "ROI_Pct"    -> r
                   [] k = "Margin_Pct" -> m]
    IN [k \in {j \in DOMAIN v : v[j] # Absent} |-> v[k]]

TierProbes == {Rat(k, 2) : k \in (-2 * Margin)..(2 * (100 + Margin))}

----------------------------------------------------------------------------
(* Unit calls of the four pure functions: the initial state holds one     *)
(* pending call, the action of its function runs it.                      *)

\* a call that has been issued and not yet run
Pending(fn, arg) == [fn |-> fn, arg |-> arg, st |-> "pending"]

PendingCalls ==
    {Pending("clean_european_number", value) : value \in RawCells}
    \cup {Pending("assign_category", product_name) : product_name \in ProductNames}
    \cup {Pending("calculate_health_score", ScoreRow(p, u, r, m)) :
             p \in ProfitProbes, u \in UnitsProbes, r \in RoiProbes, m \in MarginProbes}
    \cup {Pending("assign_performance_tier", health_score) : health_score \in TierProbes}

CallClean ==
    /\ call.fn = "clean_european_number"
    /\ call.st = "pending"
    /\ LET r == clean_european_number(call.arg)
       IN call' = [fn |-> call.fn, arg |-> call.arg, st |-> "returned",
                   raised |-> r.exc, result |-> r.val]
    /\ UNCHANGED <<fs, console, exc, ret>>

CallCategory ==
    /\ call.fn = "assign_category"
    /\ call.st = "pending"
    /\ call' = [fn |-> call.fn, arg |-> call.arg, st |-> "returned",
                result |-> assign_category(call.arg)]
    /\ UNCHANGED <<fs, console, exc, ret>>

CallHealth ==
    /\ call.fn = "calculate_health_score"
    /\ call.st = "pending"
    /\ call' = [fn |-> call.fn, arg |-> call.arg, st |-> "returned",
                score |-> health_score_sum(call.arg),
                result |-> calculate_health_score(call.arg)]
    /\ UNCHANGED <<fs, console, exc, ret>>

CallTier ==
    /\ call.fn = "assign_performance_tier"
    /\ call.st = "pending"
    /\ call' = [fn |-> call.fn, arg |-> call.arg, st |-> "returned",
                result |-> assign_performance_tier(call.arg)]
    /\ UNCHANGED <<fs, console, exc, ret>>

InitFn ==
    /\ fs = NoFiles
    /\ console = <<>>
    /\ exc = "none"
    /\ ret = NoReturn
    /\ call \in PendingCalls

NextFn == CallClean \/ CallCategory \/ CallHealth \/ CallTier

SpecFn == InitFn /\ [][NextFn]_vars

----------------------------------------------------------------------------
(* Properties of the pure functions, checked under SpecFn. *)

Returned(fn) == call.fn = fn /\ call.st = "returned"

\* C1: whatever Net_Profit, Units_Sold, ROI_Pct and Margin_Pct are, and also
\* when a field is absent, calculate_health_score returns a value in 0..100.
HealthScoreInRange ==
    Returned("calculate_health_score") => call.result \in 0..100

\* a row with only a negative Net_Profit: the other three fields default to 0
HealthScoreDefaultsWitness ==
    /\ Returned("calculate_health_score")
    /\ DOMAIN call.arg = {"Net_Profit"}
    /\ Lt(call.arg["Net_Profit"], Zero)
    /\ call.result = 20

\* C2: assign_performance_tier returns Star for s >= 80, Strong for
\* 60 <= s < 80, Average for 45 <= s < 60 and Weak for s < 45, so exactly one
\* of the four labels for every score.
TierThresholds ==
    Returned("assign_performance_tier") =>
        LET s == call.arg
            AtLeast(t) == s.n >= t * s.d
        IN /\ AtLeast(80) => call.result = "Star"
           /\ (AtLeast(60) /\ ~AtLeast(80)) => call.result = "Strong"
           /\ (AtLeast(45) /\ ~AtLeast(60)) => call.result = "Average"
           /\ ~AtLeast(45) => call.result = "Weak"
           /\ call.result \in {"Star", "Strong", "Average", "Weak"}
           /\ s = N(80) => call.result = "Star"
           /\ s = N(60) => call.result = "Strong"
           /\ s = N(45) => call.result = "Average"
           /\ s = N(59) => call.result = "Average"

TierBoundaryWitness ==
    /\ Returned("assign_performance_tier")
    /\ call.arg = N(60)
    /\ call.result = "Strong"

CategoryOrder ==
    <<"Electronics & Home", "Fragrances", "Beauty & Skincare",
      "Consumables & Health", "Collectibles & Toys", "Apparel & Footwear",
      "Drinkware", "Sports", "Media & Entertainment">>

CategoryLabels == {CategoryOrder[i] : i \in 1..Len(CategoryOrder)} \cup {"Other"}

\* the table entries with a keyword occurring in the lower-cased name
MatchingEntries(product_name) ==
    {i \in 1..Len(category_keywords) :
        \E k \in 1..Len(category_keywords[i].keywords) :
            Contains(category_keywords[i].keywords[k], lower(product_name))}

\* C5: assign_category returns the first category, in the fixed table order,
\* with a keyword occurring in the lower-cased name, and Other exactly when
\* no keyword occurs; the result is one of the 10 labels.
CategoryFirstMatch ==
    Returned("assign_category") =>
        LET hits == MatchingEntries(call.arg)
        IN /\ Len(category_keywords) = Len(CategoryOrder)
           /\ \A i \in 1..Len(CategoryOrder) :
                 category_keywords[i].category = CategoryOrder[i]
           /\ (hits = {}) <=> (call.result = "Other")
           /\ hits # {} =>
                 \E i \in hits : /\ \A j \in hits : i <= j
                                 /\ call.result = CategoryOrder[i]
           /\ call.result \in CategoryLabels
           /\ Cardinality(CategoryLabels) = 10
           /\ call.arg = "USB Charger Cable" => call.result = "Electronics & Home"

\* a name in capitals matching keywords of two categories gets the earlier
CategorySeveralWitness ==
    /\ Returned("assign_category")
    /\ call.arg = "CDcup"
    /\ MatchingEntries(call.arg) = {7, 9}
    /\ call.result = "Drinkware"

\* C6: clean_european_number returns a float and never raises: 0.0 for a
\* missing value and for a string float() rejects after removing spaces and
\* replacing commas by periods, the value itself for a number, and the parsed
\* value for a locale-formatted string.
CleanNeverRaises ==
    Returned("clean_european_number") =>
        LET v       == call.arg
            cleaned == replace(replace(v.s, " ", ""), ",", ".")
        IN /\ call.raised = "none"
           /\ call.result.d >= 0
           /\ isna(v) => call.result = Zero
           /\ (v.t = "num" /\ ~IsNaN(v.v)) => call.result = v.v
           /\ (v.t = "str" /\ float(cleaned).exc = "ValueError") => call.result = Zero
           /\ (v.t = "str" /\ float(cleaned).exc = "none") =>
                 call.result = float(cleaned).val
           /\ v = StrCell("5 191,16") => call.result = Rat(519116, 100)
           /\ v = StrCell("1 000") => call.result = Rat(1000, 1)
           /\ v = StrCell("-12,5") => call.result = Rat(-25, 2)
           /\ v \in {StrCell("abc"), StrCell("1.234,56"), StrCell(""), StrCell("-")} =>
                 call.result = Zero

\* an unparseable string came back as 0.0
CleanUnparseableWitness ==
    /\ Returned("clean_european_number")
    /\ call.arg = StrCell("1.234,56")
    /\ call.result = Zero
    /\ call.raised = "none"

\* C10: the sum 50 + profit + velocity + ROI + margin adjustment lies in
\* 10..100 and is a multiple of 5, so the clamp never changes it and no
\* Health_Score is below 10.
HealthSumNeverClamped ==
    Returned("calculate_health_score") =>
        /\ call.score \in 10..100
        /\ call.score % 5 = 0
        /\ call.result = call.score
        /\ call.result >= 10

\* both ends of the range are reached
HealthSumMinimumWitness ==
    /\ Returned("calculate_health_score")
    /\ call.score = 10
    /\ call.result = 10

----------------------------------------------------------------------------
(* Properties of the pipeline, checked under Spec. *)

\* the operation that ran last
LastOp == IF console = <<>> THEN "none" ELSE console[1].fn

\* the last operation was fn and it returned a table
Produced(fn) == LastOp = fn /\ exc = "none" /\ ret.t = "df"

\* k * num / den for den > 0
Quotient(k, num, den) ==
    IF IsNaN(num) THEN NaN ELSE Rat(k * num.n * den.d, num.d * den.n)

\* value is 0 for den <= 0, k * num / den for den > 0, and no inf or NaN
\* comes out of finite operands
Guarded(value, k, num, den) ==
    /\ (Lt(den, Zero) \/ Eq(den, Zero)) => value = Zero
    /\ Gt(den, Zero) => value = Quotient(k, num, den)
    /\ (IsFinite(num) /\ IsFinite(den)) => IsFinite(value)

\* C3: in process_sku_data and process_daily_data every ratio guarded on a
\* plain column is 0 when that column is non-positive, never the result of a
\* division by zero, and the quotient (times 100 for the percentages) when
\* the column is positive.
RatiosGuarded ==
    /\ Produced("process_sku_data") =>
          \A i \in 1..Len(ret.df) :
             LET r == ret.df[i]
             IN /\ Guarded(r["Margin_Pct"], 100, r["Net_Profit"], r["Revenue"])
                /\ Guarded(r["Refund_Rate_Pct"], 100, r["Refunds"], r["Units_Sold"])
                /\ Guarded(r["Avg_Sale_Price"], 1, r["Revenue"], r["Units_Sold"])
                /\ Guarded(r["Profit_Per_Unit"], 1, r["Net_Profit"], r["Units_Sold"])
    /\ Produced("process_daily_data") =>
          \A i \in 1..Len(ret.df) :
             LET r == ret.df[i]
             IN /\ Guarded(r["Conversion_Rate_Pct"], 100, r["Orders"], r["Sessions"])
                /\ Guarded(r["Margin_Pct"], 100, r["Net_Profit"], r["Revenue"])

\* a SKU row with a loss on zero revenue and a refund on zero units
RatiosZeroDenominatorWitness ==
    /\ Produced("process_sku_data")
    /\ \E i \in 1..Len(ret.df) :
          LET r == ret.df[i]
          IN /\ r["Revenue"] = Zero
             /\ r["Net_Profit"] = N(-10)
             /\ r["Margin_Pct"] = Zero
             /\ r["Units_Sold"] = Zero
             /\ r["Refunds"] = N(1)
             /\ r["Refund_Rate_Pct"] = Zero

\* C4 as stated: ROI_Pct is 0 whenever COGS <= 0, negative COGS included, and
\* a non-zero ROI_Pct is produced only for rows with COGS > 0.
RoiZeroForNonPositiveCogs ==
    Produced("process_sku_data") =>
        \A i \in 1..Len(ret.df) :
           LET r == ret.df[i]
           IN /\ (Lt(r["COGS"], Zero) \/ Eq(r["COGS"], Zero)) => r["ROI_Pct"] = Zero
              /\ r["ROI_Pct"] # Zero => Gt(r["COGS"], Zero)

\* C4 amended: ROI_Pct is 0 when the cleaned COGS is 0 (or NaN); for every
\* other COGS, negative included, it is Net_Profit / |COGS| * 100, so a
\* non-zero ROI_Pct is produced only for rows with COGS # 0.
RoiZeroOnlyForZeroCogs ==
    Produced("process_sku_data") =>
        \A i \in 1..Len(ret.df) :
           LET r    == ret.df[i]
               cogs == r["COGS"]
           IN /\ (Eq(cogs, Zero) \/ IsNaN(cogs)) => r["ROI_Pct"] = Zero
              /\ Gt(cogs, Zero) => r["ROI_Pct"] = Quotient(100, r["Net_Profit"], cogs)
              /\ Lt(cogs, Zero) =>
                    r["ROI_Pct"] = Quotient(100, r["Net_Profit"], [n |-> -cogs.n, d |-> cogs.d])
              /\ r["ROI_Pct"] # Zero => (Gt(cogs, Zero) \/ Lt(cogs, Zero))

\* a row with COGS -400 and profit 450.25 has an ROI of 112.5625 percent
RoiNegativeCogsWitness ==
    /\ Produced("process_sku_data")
    /\ \E i \in 1..Len(ret.df) :
          /\ ret.df[i]["COGS"] = N(-400)
          /\ ret.df[i]["Net_Profit"] = Rat(45025, 100)
          /\ ret.df[i]["ROI_Pct"] = Rat(1125625, 10000)

\* the last operation looked for a file that is not there
MissingFor(fn) ==
    /\ LastOp = fn
    /\ CASE fn = "main" -> sku_output \notin DOMAIN fs \/ daily_output \notin DOMAIN fs
         [] fn = "process_sku_data" -> raw_sku \notin DOMAIN fs
         [] fn = "process_daily_data" -> raw_daily \notin DOMAIN fs

\* some line other than the operation's opening line was printed
ReportedOnConsole == \E k \in 1..Len(console) : console[k].msg \notin
    {"Processing SKU data from", "Processing daily data from"}

\* C7 as stated: in main, process_sku_data and process_daily_data a missing
\* expected file is reported on the console, no exception propagates and
\* nothing is written.
MissingFileReportedEverywhere ==
    \A fn \in {"main", "process_sku_data", "process_daily_data"} :
        MissingFor(fn) => exc = "none" /\ ReportedOnConsole

\* C7 amended: main, when either processed file is absent, prints its two
\* messages, lets no exception propagate and writes nothing;
\* process_sku_data and process_daily_data print their opening line and let
\* FileNotFoundError propagate, and write nothing.
MissingFileHandling ==
    /\ MissingFor("main") =>
          /\ exc = "none"
          /\ ret = ReturnNone
          /\ Len(console) = 2
          /\ console[1].msg = "Raw data files not found. Please place Sellerboard exports in data/ directory."
          /\ console[2].msg = "Expected files: raw_sku_data.csv, raw_daily_data.csv"
    /\ MissingFor("process_sku_data") =>
          /\ exc = "FileNotFoundError"
          /\ ret = NoReturn
          /\ Len(console) = 1
          /\ console[1].msg = "Processing SKU data from"
    /\ MissingFor("process_daily_data") =>
          /\ exc = "FileNotFoundError"
          /\ ret = NoReturn
          /\ Len(console) = 1
          /\ console[1].msg = "Processing daily data from"
    /\ sku_output \in DOMAIN fs => raw_sku \in DOMAIN fs
    /\ daily_output \in DOMAIN fs => raw_daily \in DOMAIN fs

\* process_sku_data ran without its input while the daily files are in place
MissingSkuInputWitness ==
    /\ MissingFor("process_sku_data")
    /\ exc = "FileNotFoundError"
    /\ daily_output \in DOMAIN fs
    /\ sku_output \notin DOMAIN fs

\* C8: every row of the table process_sku_data returns and writes carries a
\* Category derived from the product name by assign_category, one of the 10
\* labels, so that generate_summary_stats finds the column it groups by.
SkuRowsCarryCategory ==
    /\ sku_output \in DOMAIN fs =>
          \A i \in 1..Len(fs[sku_output]) :
             LET r == fs[sku_output][i]
             IN /\ "Category" \in DOMAIN r
                /\ r["Category"] = assign_category(r["Product_Name"])
                /\ r["Category"] \in CategoryLabels
    /\ LastOp = "main" => exc # "KeyError"

\* C9: every output row's Health_Score is calculate_health_score of that row's
\* cleaned Net_Profit, its Units_Sold and the Margin_Pct and ROI_Pct derived
\* in this run, its Performance_Tier is assign_performance_tier of that
\* score, and the rows are those of the input, in the input's order.
ScoreFromDerivedRatios ==
    Produced("process_sku_data") =>
        LET raw == fs[raw_sku]
            out == ret.df
        IN /\ Len(out) = Len(raw)
           /\ fs[sku_output] = out
           /\ \A i \in 1..Len(out) :
                 LET np     == clean_european_number(raw[i]["Net_Profit"]).val
                     rev    == clean_european_number(raw[i]["Revenue"]).val
                     cogs   == FAbs(clean_european_number(raw[i]["COGS"]).val)
                     margin == IF Gt(rev, Zero) THEN Quotient(100, np, rev) ELSE Zero
                     roi    == IF Gt(cogs, Zero) THEN Quotient(100, np, cogs) ELSE Zero
                     score  == calculate_health_score(
                                   [Net_Profit |-> np, Units_Sold |-> raw[i]["Units_Sold"],
                                    ROI_Pct |-> roi, Margin_Pct |-> margin])
                 IN /\ out[i]["Net_Profit"] = np
                    /\ out[i]["Margin_Pct"] = margin
                    /\ out[i]["ROI_Pct"] = roi
                    /\ out[i]["Health_Score"] = N(score)
                    /\ out[i]["Performance_Tier"] = assign_performance_tier(N(score))
                    /\ out[i]["Product_Name"] = raw[i]["Product_Name"]
                    /\ out[i]["Units_Sold"] = raw[i]["Units_Sold"]
                    /\ out[i]["SKU"] = "SKU-000" \o str(i)
                    /\ raw[i]["Product_Name"] = "USB Charger Cable" =>
                          /\ out[i]["Health_Score"] = N(95)
                          /\ out[i]["Performance_Tier"] = "Star"
                    /\ raw[i]["Product_Name"] = "DVD Box" =>
                          /\ out[i]["Health_Score"] = N(20)
                          /\ out[i]["Performance_Tier"] = "Weak"

\* two rows, scored 20 and 95 from their own ratios, in the input's order
ScoreTwoRowsWitness ==
    /\ Produced("process_sku_data")
    /\ Len(ret.df) = 2
    /\ ret.df[1]["Health_Score"] = N(20)
    /\ ret.df[1]["ROI_Pct"] = Zero
    /\ ret.df[2]["Health_Score"] = N(95)
    /\ ret.df[2]["Performance_Tier"] = "Star"

====
